---------------------------- MODULE Spec2Model ----------------------------
(***************************************************************************)
(* Model of yt_vid_downloader/main.py: the POST /download handler          *)
(* (download_video), the background dispatch (download_video_task) and     *)
(* the asyncio.Semaphore (download_semaphore) that gates it.               *)
(*                                                                         *)
(* Scheduling.  The application is one asyncio event loop (uvicorn         *)
(* main:app).  A coroutine runs on the loop's single thread until it       *)
(* awaits something that is not ready.  download_video is an async def     *)
(* without any await; download_video_task is an async def whose only       *)
(* await is the semaphore's acquire (async with), and both calls of        *)
(* ydl.extract_info are ordinary synchronous calls: the coroutine keeps    *)
(* the thread from the moment it holds its slot until it has left the      *)
(* async with block.  AwaitPoints names the program points at which a      *)
(* coroutine has handed the thread back.                                   *)
(*                                                                         *)
(* The signature of download_video as written (lines 279-283: a parameter  *)
(* without a default after one with a default) is rejected by the Python   *)
(* compiler; the model is of the module with its parameters put in order.  *)
(***************************************************************************)
EXTENDS Integers, Sequences, FiniteSets, TLC

-----------------------------------------------------------------------------
(* Configuration, main.py lines 17-19 *)
MAX_CONCURRENT_DOWNLOADS == 3

MAX_VIDEO_DURATION_SECONDS == 3600

(* Bounds of the model *)
MaxRequests == 4

MaxDispatches == 2

MaxLiveRequests == 3

MaxFilenameDispatches == 2

MaxValidated == 1

Requests == 1..MaxRequests

-----------------------------------------------------------------------------
(* Strings are sequences of one-character strings. "LF" is the newline.    *)
SCHEME_HTTP == <<"h", "t", "t", "p", ":", "/", "/">>
SCHEME_HTTPS == <<"h", "t", "t", "p", "s", ":", "/", "/">>
WWW == <<"w", "w", "w", ".">>
HOST_YOUTUBE == <<"y", "o", "u", "t", "u", "b", "e", ".", "c", "o", "m">>
HOST_YOUTU_BE == <<"y", "o", "u", "t", "u", ".", "b", "e">>
WATCH == <<"w", "a", "t", "c", "h", "?", "v", "=">>
EMBED == <<"e", "m", "b", "e", "d", "/">>
V_SLASH == <<"v", "/">>
QUERY_V == <<"?", "v", "=">>
SLASH == <<"/">>

ID_LENGTH == 11

Lower == {"a","b","c","d","e","f","g","h","i","j","k","l","m",
          "n","o","p","q","r","s","t","u","v","w","x","y","z"}
Upper == {"A","B","C","D","E","F","G","H","I","J","K","L","M",
          "N","O","P","Q","R","S","T","U","V","W","X","Y","Z"}
Digit == {"0","1","2","3","4","5","6","7","8","9"}
\* Variant of IdChars: the class without "_" and "-".
IdChars_alphanumeric == Lower \cup Upper \cup Digit

(* the class [a-zA-Z0-9_-] *)
IdChars == Lower \cup Upper \cup Digit \cup {"_", "-"}

StartsWith(s, p) == Len(s) >= Len(p) /\ SubSeq(s, 1, Len(p)) = p
Drop(s, n) == SubSeq(s, n + 1, Len(s))
NoNewline(s) == \A k \in 1..Len(s) : s[k] # "LF"

\* Variant of Group4: the group written as any run of characters.
Group4_any_run(g) == NoNewline(g)

\* group 4, optional: watch?v= or embed/ or v/ or one or more characters then ?v=
Group4(g) ==
    \/ g = <<>>
    \/ g = WATCH
    \/ g = EMBED
    \/ g = V_SLASH
    \/ /\ Len(g) > Len(QUERY_V)
       /\ Drop(g, Len(g) - Len(QUERY_V)) = QUERY_V
       /\ NoNewline(SubSeq(g, 1, Len(g) - Len(QUERY_V)))

\* group 5: eleven characters of the class, at position p of s
IdAt(s, p) ==
    /\ p + ID_LENGTH - 1 <= Len(s)
    /\ \A q \in p..(p + ID_LENGTH - 1) : s[q] \in IdChars

\* group 6 and the end anchor: any characters but a newline, then the end of
\* the string or a newline that ends it
TailOk(t) ==
    \/ NoNewline(t)
    \/ Len(t) > 0 /\ t[Len(t)] = "LF" /\ NoNewline(SubSeq(t, 1, Len(t) - 1))

PathMatches(p) ==
    \E k \in 0..Len(p) :
        /\ Group4(SubSeq(p, 1, k))
        /\ IdAt(p, k + 1)
        /\ TailOk(Drop(p, k + ID_LENGTH))

(* youtube_regex.match(youtube_url), lines 296-300 *)
youtube_regex_match(u) ==
    \E scheme \in {<<>>, SCHEME_HTTP, SCHEME_HTTPS}, www \in {<<>>, WWW},
       host \in {HOST_YOUTUBE, HOST_YOUTU_BE} :
        LET prefix == scheme \o www \o host \o SLASH
        IN  StartsWith(u, prefix) /\ PathMatches(Drop(u, Len(prefix)))

ID_A == <<"A", "A", "A", "A", "A", "A", "A", "A", "A", "A", "A">>
ID_SHORT == <<"s", "h", "o", "r", "t">>
NOT_A_URL == <<"n", "o", "t", " ", "a", " ", "u", "r", "l">>

URL_WATCH == SCHEME_HTTPS \o WWW \o HOST_YOUTUBE \o SLASH \o WATCH \o ID_A
URL_SHORTLINK == SCHEME_HTTPS \o HOST_YOUTU_BE \o SLASH \o ID_A
URL_EMBED == HOST_YOUTUBE \o SLASH \o EMBED \o ID_A
URL_SHORT_ID == SCHEME_HTTPS \o WWW \o HOST_YOUTUBE \o SLASH \o WATCH \o ID_SHORT

(* Inputs of the validator: the three documented forms over sample ids, and *)
(* strings without an identifier of eleven characters in a known position.  *)
ID_MIXED == <<"d", "Q", "w", "4", "w", "9", "W", "g", "X", "c", "Q">>
ID_DASHES == <<"-", "_", "-", "_", "-", "_", "-", "_", "-", "_", "-">>
ID_DIGITS == <<"0", "1", "2", "3", "4", "5", "6", "7", "8", "9", "0">>
ID_LOWER == <<"a", "b", "c", "d", "e", "f", "g", "h", "i", "j", "k">>
ID_TEN == <<"A", "A", "A", "A", "A", "A", "A", "A", "A", "A">>
ID_BANG == <<"A", "A", "A", "A", "A", "!", "A", "A", "A", "A", "A">>
ID_TWELVE == <<"A", "A", "A", "A", "A", "A", "A", "A", "A", "A", "A", "A">>
SCHEME_FTP == <<"f", "t", "p", ":", "/", "/">>
HOST_VIMEO == <<"v", "i", "m", "e", "o", ".", "c", "o", "m">>
SHORTS == <<"s", "h", "o", "r", "t", "s", "/">>
WATCH_NO_V == <<"w", "a", "t", "c", "h", "?">>
CHANNEL_Q == <<"c", "h", "a", "n", "n", "e", "l", "?", "l", "i", "s", "t", "=", "x", "&">>
AND_T == <<"&", "t", "=", "1", "s">>

SampleIds == {ID_A, ID_MIXED, ID_DASHES, ID_DIGITS, ID_LOWER}

AcceptedForms ==
    {scheme \o www \o form \o id :
        scheme \in {<<>>, SCHEME_HTTP, SCHEME_HTTPS}, www \in {<<>>, WWW},
        form \in {HOST_YOUTUBE \o SLASH \o WATCH, HOST_YOUTU_BE \o SLASH,
                  HOST_YOUTUBE \o SLASH \o EMBED},
        id \in SampleIds}

OtherStrings ==
    {scheme \o host \o SLASH \o before \o id \o after :
        scheme \in {<<>>, SCHEME_HTTPS},
        host \in {HOST_YOUTUBE, HOST_YOUTU_BE},
        before \in {<<>>, WATCH, EMBED, SHORTS, WATCH_NO_V, CHANNEL_Q},
        id \in {ID_TEN, ID_BANG},
        after \in {<<>>, AND_T}}
    \cup {scheme \o host \o SLASH \o before \o ID_A :
             scheme \in {SCHEME_HTTPS, SCHEME_FTP},
             host \in {HOST_YOUTUBE, HOST_VIMEO},
             before \in {<<>>, WATCH, SHORTS, WATCH_NO_V}}
    \cup {NOT_A_URL, <<>>, ID_A, WATCH \o ID_A, HOST_YOUTUBE, HOST_YOUTUBE \o SLASH,
          HOST_YOUTUBE \o ID_A, HOST_YOUTUBE \o SLASH \o ID_TWELVE,
          HOST_YOUTUBE \o SLASH \o WATCH \o ID_A \o <<"LF">>,
          HOST_YOUTUBE \o SLASH \o WATCH \o ID_A \o <<"LF">> \o AND_T,
          HOST_YOUTUBE \o SLASH \o WATCH \o ID_SHORT \o AND_T \o QUERY_V \o ID_A,
          HOST_YOUTUBE \o SLASH \o <<"LF">> \o QUERY_V \o ID_A}

UrlGrid == AcceptedForms \cup OtherStrings

(* submitted form values *)
Urls == {URL_WATCH, NOT_A_URL}
UrlsWide == {URL_WATCH, URL_SHORTLINK, URL_EMBED, NOT_A_URL, URL_SHORT_ID}

-----------------------------------------------------------------------------
(* HTTP status codes of the responses, lines 303, 311, 319; 0: no response yet *)
HTTP_400_BAD_REQUEST == 400

HTTP_429_TOO_MANY_REQUESTS == 429

HTTP_202_ACCEPTED == 202

NoResponse == 0

(* info_dict.get('duration'): <<>> is None, <<d>> is the number d *)
NoDuration == <<>>
Durations == {NoDuration, <<0>>, <<MAX_VIDEO_DURATION_SECONDS>>,
              <<MAX_VIDEO_DURATION_SECONDS + 1>>, <<4000>>}
DurationsNarrow == {NoDuration, <<4000>>}

(* info_dict.get('title', 'video'): <<>> is a missing key, <<t>> the title t *)
NoTitle == <<>>
VIDEO == <<"v", "i", "d", "e", "o">>
TITLE_SLASH == <<"a", "/", "b">>
TITLE_COLON == <<"a", ":", "b">>
TITLE_UNDERSCORE == <<"a", "_", "b">>
Titles == {NoTitle, <<VIDEO>>, <<TITLE_SLASH>>, <<TITLE_COLON>>, <<TITLE_UNDERSCORE>>}
TitlesNarrow == {<<VIDEO>>}

(* What a call of ydl.extract_info does: it returns, or it raises             *)
(* yt_dlp.utils.DownloadError, another Exception, or a BaseException that is  *)
(* no Exception (KeyboardInterrupt, SystemExit).                              *)
Exceptions == {"DownloadError", "Exception", "BaseException"}
Returned == "none"

(* the returned dict: its status and which of the four messages it carries *)
NoOutcome == [status |-> "none", message |-> "none"]
DurationExceeded == [status |-> "error", message |-> "Video duration exceeds the allowed limit."]
DownloadFailed == [status |-> "error", message |-> "Failed to download video"]
UnexpectedFailure == [status |-> "error", message |-> "An unexpected error occurred during download."]
Downloaded == [status |-> "success", message |-> "Successfully downloaded"]

VARIABLES
    arrived,             \* number of POST /download requests handled so far
    url,                 \* url[r]: the youtube_url of request r (<<>>: not yet received)
    response,            \* response[r]: status code answered to request r
    body,                \* body[r]: the "status" field of the response body
    pc,                  \* pc[r]: where the background task of request r is
    download_semaphore,  \* _value, _waiters and the waiters whose future is done
    duration,            \* duration[r]: the local of that name, kept once assigned
    title,               \* title[r]: info_dict's 'title' as the probe returned it
    unique_filename,     \* unique_filename[r]: the local of that name (<<>>: not yet)
    uuid_calls,          \* calls of uuid.uuid4() for a filename so far
    outcome,             \* outcome[r]: the dict download_video_task returned
    probe_calls,         \* probe_calls[r]: calls of extract_info(download=False)
    fetch_calls,         \* fetch_calls[r]: calls of extract_info(download=True)
    probed,              \* probed[r]: how the probe call ended ("pending": not yet)
    fetched,             \* fetched[r]: how the download call ended
    acquires,            \* acquires[r]: times acquire() returned to the task of r
    releases             \* releases[r]: times release() was called by the task of r

vars == <<arrived, url, response, body, pc, download_semaphore, duration, title,
          unique_filename, uuid_calls, outcome,
          probe_calls, fetch_calls, probed, fetched, acquires, releases>>

handler_vars == <<arrived, url, response, body>>
probe_vars == <<duration, title, probe_calls, probed>>
file_vars == <<unique_filename, uuid_calls>>
fetch_vars == <<fetch_calls, fetched>>

-----------------------------------------------------------------------------
(* asyncio.Semaphore (CPython 3.11): locked, acquire, release, _wake_up_next *)

\* download_semaphore = asyncio.Semaphore(MAX_CONCURRENT_DOWNLOADS), line 25
Semaphore(value) == [value |-> value, waiters |-> <<>>, woken |-> {}]

\* Variant of locked: the test the wrong way round, true while a permit is free.
locked_while_free(s) == s.value > 0

locked(s) == s.value = 0 \/ s.waiters # <<>>

Pending(s) == {k \in 1..Len(s.waiters) : s.waiters[k] \notin s.woken}

\* the first waiter whose future is not done takes the permit
wake_up_next(s) ==
    IF Pending(s) = {} THEN s
    ELSE LET k == CHOOSE k \in Pending(s) : \A m \in Pending(s) : k <= m
         IN  [s EXCEPT !.value = @ - 1, !.woken = @ \cup {s.waiters[k]}]

release(s) == wake_up_next([s EXCEPT !.value = @ + 1])

Without(q, i) == SelectSeq(q, LAMBDA x : x # i)

\* acquire() after its future was resolved: leave the queue, pass a spare permit on
resumed(s, i) ==
    LET t == [s EXCEPT !.waiters = Without(@, i), !.woken = @ \ {i}]
    IN  IF t.value > 0 THEN wake_up_next(t) ELSE t

-----------------------------------------------------------------------------
(* The event loop's thread *)

\* program points of a task at which its coroutine is suspended: "scheduled"
\* (add_task done, the response being sent, the task not started) and "waiting"
\* (inside acquire, on a future). The extract_info calls at "probe" and "fetch"
\* are synchronous: the coroutine does not leave the thread there.
AwaitPoints == {"scheduled", "waiting"}

InTask == {"probe", "check", "fetch"}

OnThread(i) == pc[i] \in InTask \ AwaitPoints

ThreadFreeFor(i) == \A j \in Requests \ {i} : ~OnThread(j)

ThreadFree == \A j \in Requests : ~OnThread(j)

(* workers between gate acquire and gate release *)
Inside == {i \in Requests : pc[i] \in InTask}

-----------------------------------------------------------------------------
Init ==
    /\ arrived = 0
    /\ url = [r \in Requests |-> <<>>]
    /\ response = [r \in Requests |-> NoResponse]
    /\ body = [r \in Requests |-> "none"]
    /\ pc = [r \in Requests |-> "none"]
    /\ download_semaphore = Semaphore(MAX_CONCURRENT_DOWNLOADS)
    /\ duration = [r \in Requests |-> NoDuration]
    /\ title = [r \in Requests |-> NoTitle]
    /\ unique_filename = [r \in Requests |-> <<>>]
    /\ uuid_calls = 0
    /\ outcome = [r \in Requests |-> NoOutcome]
    /\ probe_calls = [r \in Requests |-> 0]
    /\ fetch_calls = [r \in Requests |-> 0]
    /\ probed = [r \in Requests |-> "pending"]
    /\ fetched = [r \in Requests |-> "pending"]
    /\ acquires = [r \in Requests |-> 0]
    /\ releases = [r \in Requests |-> 0]

-----------------------------------------------------------------------------
(* POST /download: download_video, lines 278-321 *)

\* Variant of download_video_response: add_task called before the checks.
download_video_response_adds_first(u, s) ==
    IF ~youtube_regex_match(u)
    THEN [code |-> HTTP_400_BAD_REQUEST, status |-> "error", add_task |-> TRUE]
    ELSE IF locked(s)
    THEN [code |-> HTTP_429_TOO_MANY_REQUESTS, status |-> "error", add_task |-> TRUE]
    ELSE [code |-> HTTP_202_ACCEPTED, status |-> "processing", add_task |-> TRUE]

\* Variant of download_video_response: the semaphore is tested before the URL,
\* and add_task is called before the URL is validated.
download_video_response_gate_first(u, s) ==
    IF locked(s)
    THEN [code |-> HTTP_429_TOO_MANY_REQUESTS, status |-> "error", add_task |-> FALSE]
    ELSE IF ~youtube_regex_match(u)
    THEN [code |-> HTTP_400_BAD_REQUEST, status |-> "error", add_task |-> TRUE]
    ELSE [code |-> HTTP_202_ACCEPTED, status |-> "processing", add_task |-> TRUE]

\* Variant of download_video_response: the two checks in the other order.
download_video_response_gate_then_url(u, s) ==
    IF locked(s)
    THEN [code |-> HTTP_429_TOO_MANY_REQUESTS, status |-> "error", add_task |-> FALSE]
    ELSE IF ~youtube_regex_match(u)
    THEN [code |-> HTTP_400_BAD_REQUEST, status |-> "error", add_task |-> FALSE]
    ELSE [code |-> HTTP_202_ACCEPTED, status |-> "processing", add_task |-> TRUE]

\* what the handler answers for youtube_url u with the semaphore in state s, and
\* whether it calls background_tasks.add_task: lines 300-321
download_video_response(u, s) ==
    IF ~youtube_regex_match(u)
    THEN [code |-> HTTP_400_BAD_REQUEST, status |-> "error", add_task |-> FALSE]
    ELSE IF locked(s)
    THEN [code |-> HTTP_429_TOO_MANY_REQUESTS, status |-> "error", add_task |-> FALSE]
    ELSE [code |-> HTTP_202_ACCEPTED, status |-> "processing", add_task |-> TRUE]

\* the handler has no await: it runs in one piece, when the thread is free
download_video(n, urls) ==
    /\ arrived < n
    /\ ThreadFree
    /\ \E u \in urls :
        LET r == arrived + 1
            a == download_video_response(u, download_semaphore)
        IN  /\ arrived' = r
            /\ url' = [url EXCEPT ![r] = u]
            /\ response' = [response EXCEPT ![r] = a.code]
            /\ body' = [body EXCEPT ![r] = a.status]
            /\ pc' = [pc EXCEPT ![r] = IF a.add_task THEN "scheduled" ELSE @]
    /\ UNCHANGED <<download_semaphore, probe_vars, file_vars, fetch_vars, outcome,
                   acquires, releases>>

-----------------------------------------------------------------------------
(* The background task: download_video_task, lines 28-87 *)

\* Variant of aexit: a release written after the body instead of in a finally,
\* so that an exception leaving the block skips it.
aexit_unless_raised(i, exc) ==
    IF exc = Returned
    THEN /\ download_semaphore' = release(download_semaphore)
         /\ releases' = [releases EXCEPT ![i] = @ + 1]
    ELSE UNCHANGED <<download_semaphore, releases>>

\* Variant of aexit: the slot is kept when the download raised DownloadError.
aexit_keeps_on_download_error(i, exc) ==
    IF exc # "DownloadError"
    THEN /\ download_semaphore' = release(download_semaphore)
         /\ releases' = [releases EXCEPT ![i] = @ + 1]
    ELSE UNCHANGED <<download_semaphore, releases>>

\* __aexit__ of "async with download_semaphore", line 34: the slot is released
\* however the block ended (exc: the exception that ended it, or Returned)
aexit(i, exc) ==
    /\ download_semaphore' = release(download_semaphore)
    /\ releases' = [releases EXCEPT ![i] = @ + 1]

\* Variant of except_clauses: no except clause, an exception ends the task
\* without a returned dict.
except_clauses_missing(exc, ret) ==
    IF exc = Returned THEN ret ELSE NoOutcome

\* Variant of except_clauses: the exceptions swallowed (except: pass) and the
\* function running on to its return.
except_clauses_swallowing(exc, ret) ==
    IF exc = "BaseException" THEN NoOutcome
    ELSE IF ret = NoOutcome THEN Downloaded ELSE ret

\* the return statements and the except clauses, lines 50, 75, 77-84: what the
\* task returns when the block was left by exc (ret: the value of a return)
except_clauses(exc, ret) ==
    CASE exc = Returned -> ret
      [] exc = "DownloadError" -> DownloadFailed
      [] exc = "Exception" -> UnexpectedFailure
      [] OTHER -> NoOutcome

\* Variant of Leave: a DownloadError sends the task back to the probe, the
\* slot kept (a retry loop around the body).
Leave_retrying(i, exc, ret) ==
    IF exc = "DownloadError"
    THEN /\ pc' = [pc EXCEPT ![i] = "probe"]
         /\ UNCHANGED <<download_semaphore, releases, outcome>>
    ELSE /\ aexit(i, exc)
         /\ outcome' = [outcome EXCEPT ![i] = except_clauses(exc, ret)]
         /\ pc' = [pc EXCEPT ![i] = IF exc = "BaseException" THEN "raised" ELSE "done"]

\* Variant of Leave: after a DownloadError the task awaits an event that
\* nobody sets, the slot kept.
Leave_parked(i, exc, ret) ==
    IF exc = "DownloadError"
    THEN /\ pc' = [pc EXCEPT ![i] = "waiting"]
         /\ UNCHANGED <<download_semaphore, releases, outcome>>
    ELSE /\ aexit(i, exc)
         /\ outcome' = [outcome EXCEPT ![i] = except_clauses(exc, ret)]
         /\ pc' = [pc EXCEPT ![i] = IF exc = "BaseException" THEN "raised" ELSE "done"]

\* leaving the async with block and the function
Leave(i, exc, ret) ==
    /\ aexit(i, exc)
    /\ outcome' = [outcome EXCEPT ![i] = except_clauses(exc, ret)]
    /\ pc' = [pc EXCEPT ![i] = IF exc = "BaseException" THEN "raised" ELSE "done"]

\* Variant of Enter: the task body started on a thread of its own (a plain def
\* run by the thread pool), which cannot use "async with" and takes no permit.
Enter_unguarded(i) ==
    /\ pc[i] = "scheduled"
    /\ pc' = [pc EXCEPT ![i] = "probe"]
    /\ UNCHANGED <<handler_vars, probe_vars, file_vars, fetch_vars, outcome,
                   download_semaphore, acquires, releases>>

\* line 34, __aenter__: acquire() takes a permit at once when the semaphore is
\* not locked, and otherwise queues a future and suspends; the second branch is
\* the coroutine resumed once release() resolved its future
Enter(i) ==
    /\ ThreadFree
    /\ \/ pc[i] = "scheduled"
       \/ pc[i] = "waiting" /\ i \in download_semaphore.woken
    /\ IF pc[i] = "scheduled" /\ locked(download_semaphore)
       THEN /\ download_semaphore' =
                  [download_semaphore EXCEPT !.waiters = Append(@, i)]
            /\ pc' = [pc EXCEPT ![i] = "waiting"]
            /\ UNCHANGED acquires
       ELSE /\ download_semaphore' =
                  IF pc[i] = "scheduled"
                  THEN [download_semaphore EXCEPT !.value = @ - 1]
                  ELSE resumed(download_semaphore, i)
            /\ pc' = [pc EXCEPT ![i] = "probe"]
            /\ acquires' = [acquires EXCEPT ![i] = @ + 1]
    /\ UNCHANGED <<handler_vars, probe_vars, file_vars, fetch_vars, outcome,
                   releases>>

\* what extract_info(youtube_url, download=False) can do, lines 43-45
ProbeResults(durs, titles) ==
    {[exc |-> Returned, duration |-> d, title |-> t] : d \in durs, t \in titles}
        \cup {[exc |-> e, duration |-> NoDuration, title |-> NoTitle] :
                  e \in Exceptions}

\* Variant of Probe: the download started straight after the probe, without
\* the duration check in between.
Probe_then_fetch(i, durs, titles) ==
    /\ pc[i] = "probe"
    /\ ThreadFreeFor(i)
    /\ probe_calls' = [probe_calls EXCEPT ![i] = @ + 1]
    /\ \E res \in ProbeResults(durs, titles) :
        /\ probed' = [probed EXCEPT ![i] = res.exc]
        /\ IF res.exc = Returned
           THEN /\ duration' = [duration EXCEPT ![i] = res.duration]
                /\ title' = [title EXCEPT ![i] = res.title]
                /\ pc' = [pc EXCEPT ![i] = "fetch"]
                /\ UNCHANGED <<download_semaphore, releases, outcome>>
           ELSE /\ Leave(i, res.exc, NoOutcome)
                /\ UNCHANGED <<duration, title>>
    /\ UNCHANGED <<handler_vars, file_vars, fetch_vars, acquires>>

\* lines 43-45: the probe
Probe(i, durs, titles) ==
    /\ pc[i] = "probe"
    /\ ThreadFreeFor(i)
    /\ probe_calls' = [probe_calls EXCEPT ![i] = @ + 1]
    /\ \E res \in ProbeResults(durs, titles) :
        /\ probed' = [probed EXCEPT ![i] = res.exc]
        /\ IF res.exc = Returned
           THEN /\ duration' = [duration EXCEPT ![i] = res.duration]
                /\ title' = [title EXCEPT ![i] = res.title]
                /\ pc' = [pc EXCEPT ![i] = "check"]
                /\ UNCHANGED <<download_semaphore, releases, outcome>>
           ELSE /\ Leave(i, res.exc, NoOutcome)
                /\ UNCHANGED <<duration, title>>
    /\ UNCHANGED <<handler_vars, file_vars, fetch_vars, acquires>>

\* Variant of exceeds_limit: the ceiling taken in minutes.
exceeds_limit_in_minutes(d) ==
    d # NoDuration /\ d[1] # 0 /\ d[1] > MAX_VIDEO_DURATION_SECONDS * 60

\* Variant of exceeds_limit: the comparison written >=.
exceeds_limit_inclusive(d) ==
    d # NoDuration /\ d[1] # 0 /\ d[1] >= MAX_VIDEO_DURATION_SECONDS

\* line 47: duration and duration > MAX_VIDEO_DURATION_SECONDS
exceeds_limit(d) == d # NoDuration /\ d[1] # 0 /\ d[1] > MAX_VIDEO_DURATION_SECONDS

\* line 54: re.sub of the class of unsafe characters by "_"
UnsafeChars == {"<", ">", ":", "\"", "/", "\\", "|", "?", "*"}

sanitize(t) == [k \in 1..Len(t) |-> IF t[k] \in UnsafeChars THEN "_" ELSE t[k]]

\* uuid.uuid4().hex, line 56: 32 hexadecimal digits. uuid4 is modelled by its
\* contract, a value that no earlier call returned: the value of call number k
\* is the numeral k.
UUID_HEX_LENGTH == 32

HexDigits == <<"0", "1", "2", "3", "4", "5", "6", "7",
               "8", "9", "a", "b", "c", "d", "e", "f">>

uuid4_hex(k) ==
    [j \in 1..UUID_HEX_LENGTH |->
        IF j = UUID_HEX_LENGTH THEN HexDigits[(k % 16) + 1]
        ELSE IF j = UUID_HEX_LENGTH - 1 THEN HexDigits[((k \div 16) % 16) + 1]
        ELSE "0"]

EXT_TEMPLATE == <<".", "%", "(", "e", "x", "t", ")", "s">>

\* Variant of filename: the suffix left out.
filename_without_suffix(video_title, hex) == sanitize(video_title) \o EXT_TEMPLATE

\* lines 53-56: f"{sanitized_title}_{uuid.uuid4().hex}.%(ext)s"
filename(video_title, hex) == sanitize(video_title) \o <<"_">> \o hex \o EXT_TEMPLATE

\* line 53: info_dict.get('title', 'video')
video_title_of(t) == IF t = NoTitle THEN VIDEO ELSE t[1]

DOWNLOAD_DIR == <<"d", "o", "w", "n", "l", "o", "a", "d", "s">>

\* line 59: os.path.join(download_path, unique_filename)
outtmpl(name) == DOWNLOAD_DIR \o SLASH \o name

\* lines 47-56: the duration check, then the filename
DurationCheck(i) ==
    /\ pc[i] = "check"
    /\ ThreadFreeFor(i)
    /\ IF exceeds_limit(duration[i])
       THEN /\ Leave(i, Returned, DurationExceeded)
            /\ UNCHANGED file_vars
       ELSE /\ pc' = [pc EXCEPT ![i] = "fetch"]
            /\ uuid_calls' = uuid_calls + 1
            /\ unique_filename' =
                  [unique_filename EXCEPT
                      ![i] = filename(video_title_of(title[i]),
                                      uuid4_hex(uuid_calls + 1))]
            /\ UNCHANGED <<download_semaphore, releases, outcome>>
    /\ UNCHANGED <<handler_vars, probe_vars, fetch_vars, acquires>>

\* Variant of Fetch: a failed download rewrites the answer kept for the request
\* (a status table the response is read from) to a server error.
Fetch_surfacing(i) ==
    /\ pc[i] = "fetch"
    /\ ThreadFreeFor(i)
    /\ fetch_calls' = [fetch_calls EXCEPT ![i] = @ + 1]
    /\ \E exc \in {Returned} \cup Exceptions :
        /\ fetched' = [fetched EXCEPT ![i] = exc]
        /\ Leave(i, exc, Downloaded)
        /\ response' = [response EXCEPT ![i] = IF exc = Returned THEN @ ELSE 500]
    /\ UNCHANGED <<arrived, url, body, probe_vars, file_vars, acquires>>

\* lines 72-75: the download
Fetch(i) ==
    /\ pc[i] = "fetch"
    /\ ThreadFreeFor(i)
    /\ fetch_calls' = [fetch_calls EXCEPT ![i] = @ + 1]
    /\ \E exc \in {Returned} \cup Exceptions :
        /\ fetched' = [fetched EXCEPT ![i] = exc]
        /\ Leave(i, exc, Downloaded)
    /\ UNCHANGED <<handler_vars, probe_vars, file_vars, acquires>>

download_video_task(i, durs, titles) ==
    \/ Enter(i)
    \/ Probe(i, durs, titles)
    \/ DurationCheck(i)
    \/ Fetch(i)

-----------------------------------------------------------------------------
NextOver(n, urls, durs, titles) ==
    \/ download_video(n, urls)
    \/ \E i \in Requests : download_video_task(i, durs, titles)

Next == NextOver(MaxRequests, Urls, DurationsNarrow, TitlesNarrow)

Spec == Init /\ [][Next]_vars

\* up to MaxDispatches requests, over the wider sets of URLs and durations
DispatchNext == NextOver(MaxDispatches, UrlsWide, Durations, TitlesNarrow)

DispatchSpec == Init /\ [][DispatchNext]_vars

\* The event loop runs every coroutine that is ready, and a call of extract_info
\* that has started ends (it returns or raises).
LiveNext == NextOver(MaxLiveRequests, Urls, DurationsNarrow, TitlesNarrow)

LiveSpec ==
    /\ Init
    /\ [][LiveNext]_vars
    /\ \A i \in Requests :
          WF_vars(download_video_task(i, DurationsNarrow, TitlesNarrow))

\* accepted requests only, the probes reporting titles that sanitise alike
FilenameNext == NextOver(MaxFilenameDispatches, {URL_WATCH}, {NoDuration}, Titles)

FilenameSpec == Init /\ [][FilenameNext]_vars

\* the handler alone, over the grid of strings
ValidatorNext == download_video(MaxValidated, UrlGrid)

ValidatorSpec == Init /\ [][ValidatorNext]_vars

-----------------------------------------------------------------------------
(* Properties *)

Ended(i) == pc[i] \in {"done", "raised"}

Started(i) == pc[i] \in InTask \cup {"done", "raised"}

\* permits a task holds: acquired and not yet released
Held(i) == acquires[i] - releases[i]

RECURSIVE SumHeld(_)
SumHeld(S) ==
    IF S = {} THEN 0
    ELSE LET i == CHOOSE x \in S : TRUE IN Held(i) + SumHeld(S \ {i})

\* slots held, counted from the tasks' side
Occupancy == SumHeld(Requests)

Contending == {i \in Requests : pc[i] \in {"scheduled", "waiting"} \cup InTask}

\* C1: at no reachable state are more than MAX_CONCURRENT_DOWNLOADS dispatch
\* workers inside the guarded section (between gate acquire and gate release,
\* executing probe, duration check or fetch).
C1_AtMostKInside == Cardinality(Inside) <= MAX_CONCURRENT_DOWNLOADS

\* more dispatches than slots are under way, and one of them is inside
C1_Witness ==
    /\ Cardinality(Contending) > MAX_CONCURRENT_DOWNLOADS
    /\ Inside # {}

\* C2: every acquire of a dispatch is matched by exactly one release on every
\* exit path: a dispatch never releases more often than it acquired, never
\* twice, a dispatch that has ended (by a return, a handled exception or a
\* propagating one) has released what it acquired, and the free slots are
\* MAX_CONCURRENT_DOWNLOADS less the slots held by dispatches still inside
\* (and the permits already handed to woken waiters), so that they are back at
\* their prior value once the dispatch has ended.
C2_AcquireMatchedByRelease ==
    /\ \A i \in Requests :
        /\ releases[i] <= acquires[i]
        /\ releases[i] <= 1
        /\ Ended(i) => releases[i] = acquires[i] /\ acquires[i] = 1
    /\ download_semaphore.value + Occupancy
         + Cardinality(download_semaphore.woken) = MAX_CONCURRENT_DOWNLOADS

\* dispatches have ended on a failed download, on a propagating exception and
\* on the duration limit, and every slot is free again
C2_Witness ==
    /\ \E i, j, k \in Requests :
        /\ fetched[i] = "DownloadError" /\ outcome[i] = DownloadFailed
        /\ pc[j] = "raised"
        /\ outcome[k] = DurationExceeded
    /\ Inside = {}
    /\ download_semaphore.value = MAX_CONCURRENT_DOWNLOADS

\* C3: a gate slot is acquired at most once per dispatch, and every slot a
\* dispatch holds is eventually released.
C3_AcquiredOnceEventuallyReleased ==
    \A i \in Requests :
        /\ [](acquires[i] <= 1)
        /\ (Held(i) > 0) ~> (Held(i) = 0)

\* a dispatch acquired its slot, its download raised, and the slot is released
C3_Witness ==
    \E i \in Requests :
        /\ acquires[i] = 1 /\ releases[i] = 1
        /\ fetched[i] = "Exception"

\* C4 (as claimed): the probe call and the fetch call are suspension points:
\* while a dispatch is inside probe or fetch, the request handler can take a
\* request and another scheduled dispatch can start.
C4_ProbeAndFetchSuspend ==
    \A i \in Requests :
        pc[i] \in {"probe", "fetch"} =>
            /\ arrived < MaxRequests => ENABLED download_video(MaxRequests, Urls)
            /\ \A j \in Requests \ {i} : pc[j] = "scheduled" => ENABLED Enter(j)

\* What the code does instead: a dispatch keeps the thread from acquire to
\* release, so never two are inside, and the semaphore is never seen locked.
OneInsideAtMost == Cardinality(Inside) <= 1

NeverLocked == ThreadFree => ~locked(download_semaphore)

\* the step in which the handler answers request r
Handles(r) == arrived = r - 1 /\ arrived' = r

\* C5: if the probe of a dispatch reports a duration greater than
\* MAX_VIDEO_DURATION_SECONDS, the download is never invoked for that dispatch,
\* the dispatch returns an error outcome, and its slot is released.
C5_DurationExceededNoFetch ==
    \A i \in Requests :
        (probed[i] = Returned /\ duration[i] # NoDuration
            /\ duration[i][1] > MAX_VIDEO_DURATION_SECONDS) =>
            /\ fetch_calls[i] = 0
            /\ \/ pc[i] = "check"
               \/ /\ pc[i] = "done"
                  /\ outcome[i].status = "error"
                  /\ releases[i] = 1 /\ Held(i) = 0

\* the probe reported 4000 s and the dispatch has ended
C5_Witness ==
    \E i \in Requests :
        /\ duration[i] = <<4000>>
        /\ pc[i] = "done" /\ outcome[i] = DurationExceeded
        /\ fetch_calls[i] = 0 /\ Held(i) = 0

\* C6: a POST /download whose URL fails validation is answered 400 with an
\* error status body, schedules no background dispatch (then or later), and
\* leaves the semaphore and the number of held slots as they were.
C6_InvalidUrlRejected ==
    /\ [][\A r \in Requests :
            (Handles(r) /\ ~youtube_regex_match(url'[r])) =>
                /\ response'[r] = HTTP_400_BAD_REQUEST
                /\ body'[r] = "error"
                /\ pc' = pc
                /\ download_semaphore' = download_semaphore
                /\ Occupancy' = Occupancy]_vars
    /\ [](\A r \in Requests :
            response[r] = HTTP_400_BAD_REQUEST => pc[r] = "none" /\ acquires[r] = 0)

\* "not a url" was answered 400 while an accepted dispatch had yet to run
C6_Witness ==
    \E r, j \in Requests :
        /\ url[r] = NOT_A_URL
        /\ response[r] = HTTP_400_BAD_REQUEST /\ body[r] = "error"
        /\ j < r /\ pc[j] = "scheduled"

C8_AcceptedIffValidAndFree ==
    /\ [][\A r \in Requests :
            /\ Handles(r) =>
                /\ (response'[r] = HTTP_202_ACCEPTED /\ body'[r] = "processing")
                      <=> (youtube_regex_match(url'[r])
                             /\ Occupancy < MAX_CONCURRENT_DOWNLOADS)
                /\ (response'[r] = HTTP_202_ACCEPTED) <=> (pc'[r] = "scheduled")
                /\ (response'[r] # HTTP_202_ACCEPTED) <=> (pc'[r] = "none")
            /\ ~Handles(r) => (pc'[r] = "scheduled" => pc[r] = "scheduled")]_vars
    /\ [](\A r \in Requests :
            response[r] \in {HTTP_400_BAD_REQUEST, HTTP_429_TOO_MANY_REQUESTS} =>
                /\ pc[r] = "none"
                /\ acquires[r] = 0 /\ probe_calls[r] = 0 /\ fetch_calls[r] = 0)

\* a request was answered 202 "processing" and its dispatch has started
C8_Witness ==
    \E r \in Requests :
        /\ response[r] = HTTP_202_ACCEPTED /\ body[r] = "processing"
        /\ Started(r) /\ probe_calls[r] = 1

C10_NoRetries ==
    /\ [](\A r \in Requests :
            /\ probe_calls[r] <= 1 /\ fetch_calls[r] <= 1
            /\ response[r] # HTTP_202_ACCEPTED =>
                  probe_calls[r] = 0 /\ fetch_calls[r] = 0)
    /\ [][\A r \in Requests :
            (probed[r] \in Exceptions \/ fetched[r] \in Exceptions) =>
                /\ Ended(r)
                /\ pc'[r] = pc[r]
                /\ probe_calls'[r] = probe_calls[r]
                /\ fetch_calls'[r] = fetch_calls[r]]_vars

\* a download failed after its one probe, another request's probe failed, and
\* both dispatches have ended
C10_Witness ==
    \E r, q \in Requests :
        /\ fetched[r] = "DownloadError"
        /\ probe_calls[r] = 1 /\ fetch_calls[r] = 1 /\ Ended(r)
        /\ probed[q] = "Exception"
        /\ probe_calls[q] = 1 /\ fetch_calls[q] = 0 /\ Ended(q)

\* C11: post-acceptance outcomes are never surfaced to the caller. The answer
\* to a request is fixed in the handler's step, before any probe or download of
\* that request, as a function of the submitted URL and of the slots held then,
\* and no later step changes it: runs that differ only in how the request's
\* probe or download ends give the same response to it.
C11_ResponseFixedAtHandling ==
    /\ [][\A r \in Requests :
            Handles(r) =>
                /\ probe_calls[r] = 0 /\ fetch_calls[r] = 0
                /\ probe_calls'[r] = 0 /\ fetch_calls'[r] = 0
                /\ response'[r] =
                      IF ~youtube_regex_match(url'[r]) THEN HTTP_400_BAD_REQUEST
                      ELSE IF Occupancy = MAX_CONCURRENT_DOWNLOADS
                      THEN HTTP_429_TOO_MANY_REQUESTS
                      ELSE HTTP_202_ACCEPTED]_vars
    /\ [][\A r \in Requests :
            response[r] # NoResponse =>
                /\ response'[r] = response[r]
                /\ body'[r] = body[r]
                /\ url'[r] = url[r]]_vars

\* the same URL was answered alike for a dispatch that succeeded, for one whose
\* download failed and for one stopped by the duration limit
C11_Witness ==
    \E r, q, t \in Requests :
        /\ url[r] = url[q] /\ url[q] = url[t]
        /\ response[r] = HTTP_202_ACCEPTED /\ body[r] = "processing"
        /\ response[q] = response[r] /\ body[q] = body[r]
        /\ response[t] = response[r] /\ body[t] = body[r]
        /\ outcome[r] = Downloaded
        /\ outcome[q] = DownloadFailed
        /\ outcome[t] = DurationExceeded

Named(i) == unique_filename[i] # <<>>

\* C12: two dispatches, concurrent or one after the other, derive distinct
\* output filenames, in particular when their probes report the same title or
\* titles that sanitise to the same text: no two dispatches are given the same
\* output path.
C12_FilenamesDistinct ==
    \A i, j \in Requests :
        (i # j /\ Named(i) /\ Named(j)) =>
            /\ unique_filename[i] # unique_filename[j]
            /\ outtmpl(unique_filename[i]) # outtmpl(unique_filename[j])

\* two probes reported the same title, which holds an unsafe character, and
\* both dispatches have their filenames
C12_Witness ==
    \E i, j \in Requests :
        /\ i # j /\ Named(i) /\ Named(j)
        /\ title[i] = <<TITLE_SLASH>> /\ title[j] = <<TITLE_SLASH>>
        /\ unique_filename[i] # unique_filename[j]

Answered(r) == response[r] # NoResponse

\* eleven consecutive characters of letters, digits, "_" and "-" from position p
IdRun(u, p) ==
    /\ p >= 1 /\ p + 10 <= Len(u)
    /\ \A q \in p..(p + 10) :
          u[q] \in Lower \cup Upper \cup Digit \cup {"_", "-"}

\* the text of u before position p ends with w
EndsBefore(u, p, w) ==
    /\ p - 1 >= Len(w)
    /\ SubSeq(u, p - Len(w), p - 1) = w

\* a recognised host and its "/" occur in u before position p
HostBefore(u, p) ==
    \E h \in {HOST_YOUTUBE \o SLASH, HOST_YOUTU_BE \o SLASH} :
        \E k \in 1..p : k + Len(h) <= p /\ SubSeq(u, k, k + Len(h) - 1) = h

\* u holds an identifier segment in a recognised position: directly after the
\* "/" of a recognised host, or after watch?v=, embed/, v/ or ?v= behind one
HasIdSegment(u) ==
    \E p \in 1..Len(u) :
        /\ IdRun(u, p)
        /\ \/ EndsBefore(u, p, HOST_YOUTUBE \o SLASH)
           \/ EndsBefore(u, p, HOST_YOUTU_BE \o SLASH)
           \/ /\ HostBefore(u, p)
              /\ \E w \in {WATCH, EMBED, V_SLASH, QUERY_V} : EndsBefore(u, p, w)

\* C13: the validator never accepts a string lacking the identifier segment:
\* every submitted string without eleven consecutive characters of the class in
\* a recognised position after a recognised host is answered 400.
C13_NoSegmentRejected ==
    \A r \in Requests :
        (Answered(r) /\ ~HasIdSegment(url[r])) =>
            response[r] = HTTP_400_BAD_REQUEST /\ pc[r] = "none"

\* a watch URL whose identifier has ten characters was answered 400
C13_Witness ==
    \E r \in Requests :
        /\ url[r] = HOST_YOUTUBE \o SLASH \o WATCH \o ID_TEN
        /\ ~HasIdSegment(url[r])
        /\ response[r] = HTTP_400_BAD_REQUEST

\* C14: the validator accepts the forms youtube.com/watch?v=<id>, youtu.be/<id>
\* and youtube.com/embed/<id>, with or without scheme and "www.", for the
\* sample identifiers of eleven characters of the class: none is answered 400.
C14_DocumentedFormsAccepted ==
    \A r \in Requests :
        (Answered(r) /\ url[r] \in AcceptedForms) =>
            /\ response[r] # HTTP_400_BAD_REQUEST
            /\ youtube_regex_match(url[r])

\* the embed form without scheme, its identifier made of "-" and "_", accepted
C14_Witness ==
    \E r \in Requests :
        /\ url[r] = HOST_YOUTUBE \o SLASH \o EMBED \o ID_DASHES
        /\ response[r] = HTTP_202_ACCEPTED

\* C15 (as claimed): the pre-check reserves nothing and the workers contend at
\* the acquire: a worker answered 202 reaches its acquire whatever the others
\* do, so while a dispatch holds a slot every other scheduled dispatch can
\* arrive at the acquire, and with all slots held two of them wait there.
C15_WorkersContendAtAcquire ==
    \A i, j \in Requests :
        (i # j /\ Held(i) = 1 /\ response[j] = HTTP_202_ACCEPTED
            /\ pc[j] = "scheduled") =>
            ENABLED Enter(j)

\* What the code does instead: no worker is ever suspended at the acquire, and
\* the slots are never all held.
NobodyWaits ==
    /\ \A i \in Requests : pc[i] # "waiting"
    /\ download_semaphore.waiters = <<>>
    /\ Occupancy < MAX_CONCURRENT_DOWNLOADS

\* the states a semaphore of MAX_CONCURRENT_DOWNLOADS permits can be in when
\* tested: zero to all permits free, with or without a waiter queued
GateStates ==
    {[value |-> v, waiters |-> w, woken |-> {}] :
        v \in 0..MAX_CONCURRENT_DOWNLOADS, w \in {<<>>, <<1>>}}

\* C16: the handler validates the URL before it tests the semaphore: a request
\* with an invalid URL is answered 400 and never 429, and the answer for its
\* URL is 400 in every state of the semaphore, all permits taken included.
C16_ValidationBeforeGate ==
    \A r \in Requests :
        (Answered(r) /\ ~youtube_regex_match(url[r])) =>
            /\ response[r] = HTTP_400_BAD_REQUEST
            /\ \A s \in GateStates :
                  /\ download_video_response(url[r], s).code = HTTP_400_BAD_REQUEST
                  /\ ~download_video_response(url[r], s).add_task

\* a URL with a short identifier was answered 400 after an earlier dispatch had
\* taken and returned its permit
C16_Witness ==
    \E r, j \in Requests :
        /\ url[r] = URL_SHORT_ID
        /\ response[r] = HTTP_400_BAD_REQUEST
        /\ j < r /\ acquires[j] = 1 /\ releases[j] = 1
        /\ locked(Semaphore(0))
        /\ download_video_response(url[r], Semaphore(0)).code = HTTP_400_BAD_REQUEST

\* C17: within one dispatch the steps come in the order acquire, probe,
\* duration check, download, release: the download is invoked only after the
\* probe of the same dispatch returned and its duration check passed, the
\* probe and the download are invoked only while the dispatch holds a slot,
\* and nothing is invoked after the release.
C17_StepsInOrder ==
    /\ [](\A i \in Requests :
            /\ probe_calls[i] > 0 => acquires[i] = 1
            /\ Named(i) => probed[i] = Returned
            /\ fetch_calls[i] > 0 =>
                  /\ probed[i] = Returned
                  /\ Named(i)
                  /\ duration[i] = NoDuration
                        \/ duration[i][1] <= MAX_VIDEO_DURATION_SECONDS
            /\ releases[i] > 0 => probe_calls[i] = 1 /\ Ended(i))
    /\ [][\A i \in Requests :
            /\ probe_calls'[i] # probe_calls[i] =>
                  Held(i) = 1 /\ ~Named(i) /\ fetch_calls[i] = 0
            /\ unique_filename'[i] # unique_filename[i] =>
                  /\ Held(i) = 1 /\ acquires'[i] - releases'[i] = 1
                  /\ probe_calls[i] = 1 /\ fetch_calls[i] = 0
            /\ fetch_calls'[i] # fetch_calls[i] =>
                  Held(i) = 1 /\ Named(i) /\ probe_calls[i] = 1
            /\ releases'[i] # releases[i] => probe_calls'[i] = 1
            /\ releases[i] > 0 =>
                  /\ probe_calls'[i] = probe_calls[i]
                  /\ fetch_calls'[i] = fetch_calls[i]
                  /\ unique_filename'[i] = unique_filename[i]
                  /\ acquires'[i] = acquires[i]]_vars

\* a dispatch went through all five steps, and another is between its duration
\* check and its download, the slot held
C17_Witness ==
    \E i, j \in Requests :
        /\ acquires[i] = 1 /\ probe_calls[i] = 1 /\ Named(i)
        /\ fetch_calls[i] = 1 /\ releases[i] = 1
        /\ pc[j] = "fetch" /\ Named(j) /\ Held(j) = 1 /\ fetch_calls[j] = 0

\* the duration check of dispatch i has been made
Checked(i) ==
    probed[i] = Returned /\ pc[i] # "check"

\* C18: the ceiling rejects only durations strictly greater than
\* MAX_VIDEO_DURATION_SECONDS: when the probe reports no duration, 0, or a
\* duration up to and including the ceiling, the dispatch goes on to the
\* download; the duration-exceeded outcome is returned for greater ones only.
C18_OnlyGreaterRejected ==
    \A i \in Requests :
        /\ (Checked(i) /\ (duration[i] = NoDuration
                            \/ duration[i][1] <= MAX_VIDEO_DURATION_SECONDS)) =>
              /\ outcome[i] # DurationExceeded
              /\ pc[i] = "fetch" \/ fetch_calls[i] = 1
        /\ outcome[i] = DurationExceeded =>
              duration[i] # NoDuration /\ duration[i][1] > MAX_VIDEO_DURATION_SECONDS

\* a probe reported exactly the ceiling and another reported no duration, and
\* the download was invoked for both
C18_Witness ==
    \E i, j \in Requests :
        /\ duration[i] = <<MAX_VIDEO_DURATION_SECONDS>> /\ fetch_calls[i] = 1
        /\ probed[j] = Returned /\ duration[j] = NoDuration /\ fetch_calls[j] = 1

\* C19: every dispatch that ends by a return or by an exception derived from
\* Exception yields exactly one outcome, of status success if and only if the
\* probe returned, the duration check passed and the download returned, and of
\* status error in every other case; no outcome exists before the end, and an
\* outcome never changes.
C19_OneOutcomeSuccessIffAllPassed ==
    /\ [](\A i \in Requests :
            /\ pc[i] = "done" =>
                  /\ outcome[i].status \in {"success", "error"}
                  /\ outcome[i].status = "success" <=>
                        /\ probed[i] = Returned
                        /\ duration[i] = NoDuration
                              \/ duration[i][1] <= MAX_VIDEO_DURATION_SECONDS
                        /\ fetched[i] = Returned
            /\ pc[i] # "done" => outcome[i] = NoOutcome)
    /\ [][\A i \in Requests :
            outcome[i] # NoOutcome => outcome'[i] = outcome[i]]_vars

\* one dispatch returned success and another, whose download raised an
\* Exception that is not a DownloadError, returned error
C19_Witness ==
    \E i, j \in Requests :
        /\ pc[i] = "done" /\ outcome[i] = Downloaded /\ fetched[i] = Returned
        /\ pc[j] = "done" /\ fetched[j] = "Exception"
        /\ outcome[j] = UnexpectedFailure

Accepted(i) == response[i] = HTTP_202_ACCEPTED

\* C20 (as claimed): every dispatch scheduled by a 202 answer eventually
\* acquires a slot and eventually produces its outcome.
C20_EveryDispatchYieldsOutcome ==
    \A i \in Requests :
        Accepted(i) ~> (acquires[i] = 1 /\ outcome[i] # NoOutcome)

\* C20: no starvation at the semaphore: with every probe and download that
\* started coming to an end, every dispatch scheduled by a 202 answer
\* eventually acquires a slot, also when further requests arrive meanwhile, and
\* eventually ends: with its outcome, or without one when its probe or its
\* download raised an exception that is not derived from Exception.
C20_NoStarvationAtGate ==
    /\ \A i \in Requests : Accepted(i) ~> (acquires[i] = 1)
    /\ \A i \in Requests :
          Accepted(i) ~>
              \/ pc[i] = "done" /\ outcome[i] # NoOutcome
              \/ /\ pc[i] = "raised"
                 /\ probed[i] = "BaseException" \/ fetched[i] = "BaseException"
    /\ [](\A i \in Requests :
            (Ended(i) /\ probed[i] # "BaseException"
                /\ fetched[i] # "BaseException") => outcome[i] # NoOutcome)

\* all MaxLiveRequests requests were accepted, and each acquired a slot,
\* released it and produced an outcome
C20_Witness ==
    /\ arrived = MaxLiveRequests
    /\ \A i \in 1..MaxLiveRequests :
          /\ Accepted(i)
          /\ acquires[i] = 1 /\ releases[i] = 1
          /\ outcome[i] # NoOutcome

=============================================================================
